---- MODULE Spec2Model ----
(***************************************************************************)
(* Model of the inference gateway client, app/vllm_client.py: the          *)
(* readiness polling loop, the chat-completion call with its error         *)
(* classification, the error-message extractor and the content extractor.  *)
(*                                                                         *)
(* Text is a sequence of one-character strings (a few fixed pieces of text *)
(* that the code only concatenates are kept as one element).  A JSON value *)
(* is a record [t, s, l, d]: t the Python type of the value, s its         *)
(* characters when a str, l its items when a list, d its entries when a    *)
(* dict (a function from keys to JSON values).                             *)
(***************************************************************************)
EXTENDS Integers, Sequences, FiniteSets, TLC

----------------------------------------------------------------------------
(* Bounds of the model *)

\* largest startup timeout (seconds) tried; the smallest is -1
MaxTimeout == 3
\* longest time (seconds) one probe GET may take before the transport ends it
MaxRequestSeconds == 3
\* longest oversleep (seconds) of asyncio.sleep beyond the requested interval
MaxOversleep == 1
\* most items of a message.content list tried
MaxParts == 2

----------------------------------------------------------------------------
(* Python values *)

NoneStr == [some |-> FALSE, v |-> <<>>]
NoneInt == [some |-> FALSE, v |-> 0]
Some(x) == [some |-> TRUE, v |-> x]

NoEntries == [k \in {} |-> 0]
JNull == [t |-> "null", s |-> <<>>, l |-> <<>>, d |-> NoEntries]
JStr(chars) == [t |-> "str", s |-> chars, l |-> <<>>, d |-> NoEntries]
JList(items) == [t |-> "list", s |-> <<>>, l |-> items, d |-> NoEntries]
JDict(entries) == [t |-> "dict", s |-> <<>>, l |-> <<>>, d |-> entries]
EmptyDict == JDict(NoEntries)

\* isinstance(x, str | list | dict)
IsStr(j) == j.t = "str"
IsList(j) == j.t = "list"
IsDict(j) == j.t = "dict"

\* dict.get(key, default)
Get(j, key, default) == IF key \in DOMAIN j.d THEN j.d[key] ELSE default

\* bool(x) of a str or a list: non-empty
Truthy(j) ==
    CASE j.t = "str" -> Len(j.s) > 0
      [] j.t = "list" -> Len(j.l) > 0
      [] j.t = "dict" -> DOMAIN j.d # {}
      [] OTHER -> FALSE

----------------------------------------------------------------------------
(* str operations *)

Whitespace == {" ", "\n", "\t"}

\* str.strip(): from the first to the last character that is no whitespace
Strip(chars) ==
    LET kept == {i \in 1..Len(chars) : chars[i] \notin Whitespace}
    IN  IF kept = {} THEN <<>>
        ELSE SubSeq(chars, CHOOSE i \in kept : \A k \in kept : i <= k,
                           CHOOSE i \in kept : \A k \in kept : i >= k)

\* text[:n]
Take(chars, n) == SubSeq(chars, 1, IF Len(chars) < n THEN Len(chars) ELSE n)

\* "\n".join(parts)
RECURSIVE Join(_)
Join(parts) ==
    IF parts = <<>> THEN <<>>
    ELSE IF Len(parts) = 1 THEN parts[1]
    ELSE parts[1] \o <<"\n">> \o Join(Tail(parts))

----------------------------------------------------------------------------
(* VLLMError *)

DEFAULT_ERROR_CLASS == "vllm_error"
HTTP_ERROR_CLASS == "vllm_http_error"
STARTUP_TIMEOUT_CLASS == "vllm_startup_timeout"

\* VLLMError(message, detail=None, backend_status_code=None,
\*           backend_error_class="vllm_error", backend_latency_ms=None)
VLLMError(type, message, detail, status, class, latency) ==
    [type |-> type, message |-> message, detail |-> detail,
     backend_status_code |-> status, backend_error_class |-> class,
     backend_latency_ms |-> latency]

\* the same raised with the tag of an HTTP error
HttpTaggedVLLMError(message) ==
    VLLMError("VLLMError", message, NoneStr, NoneInt, HTTP_ERROR_CLASS, NoneInt)

\* a VLLMError raised with the message only
PlainVLLMError(message) ==
    VLLMError("VLLMError", message, NoneStr, NoneInt, DEFAULT_ERROR_CLASS, NoneInt)

\* an exception that is no VLLMError and that nothing in the client catches
Uncaught(class) ==
    VLLMError(class, "", NoneStr, NoneInt, class, NoneInt)

NoError == VLLMError("", "", NoneStr, NoneInt, "", NoneInt)

IsGatewayError(e) == e.type \in {"VLLMError", "VLLMTimeoutError"}

\* outcome of a call: a returned text or a raised exception
Returned(chars) == [ok |-> TRUE, value |-> chars, error |-> NoError]
Raised(e) == [ok |-> FALSE, value |-> <<>>, error |-> e]

----------------------------------------------------------------------------
(* _extract_message_content *)

NO_CHOICES == "vLLM response did not include any completion choices."
UNSUPPORTED_FORMAT == "vLLM returned an unsupported completion content format."

\* the loop over content: the str "text" fields of the dict items, in order
RECURSIVE TextParts(_)
TextParts(items) ==
    IF items = <<>> THEN <<>>
    ELSE LET item == Head(items)
             text == Get(item, "text", JNull)
         IN  (IF IsDict(item) /\ IsStr(text) THEN <<text.s>> ELSE <<>>)
             \o TextParts(Tail(items))

\* choices[0] if it is a dict, else {}
FirstChoice(choices) == IF IsDict(choices.l[1]) THEN choices.l[1] ELSE EmptyDict

\* first_choice.get("message", {})
MessageOf(first_choice) == Get(first_choice, "message", EmptyDict)

\* message.get("content", "") if message is a dict, else ""
ContentOf(message) == IF IsDict(message) THEN Get(message, "content", JStr(<<>>)) ELSE JStr(<<>>)

\* the fallback after the str and list strategies: first_choice.get("text")
TextFallback(first_choice) ==
    LET text == Get(first_choice, "text", JNull)
    IN  IF IsStr(text) THEN Returned(Strip(text.s))
        ELSE Raised(PlainVLLMError(UNSUPPORTED_FORMAT))

ExtractFromChoice(first_choice) ==
    LET content == ContentOf(MessageOf(first_choice))
        combined == Strip(Join(TextParts(content.l)))
    IN  IF IsStr(content) THEN Returned(Strip(content.s))
        ELSE IF IsList(content) /\ combined # <<>> THEN Returned(combined)
        ELSE TextFallback(first_choice)

ExtractMessageContent(result) ==
    IF ~IsDict(result) THEN Raised(Uncaught("AttributeError"))
    ELSE LET choices == Get(result, "choices", JList(<<>>))
         IN  IF ~IsList(choices) \/ ~Truthy(choices)
             THEN Raised(PlainVLLMError(NO_CHOICES))
             ELSE ExtractFromChoice(FirstChoice(choices))

----------------------------------------------------------------------------
(* httpx.Response: status_code, text, and json() of the text *)

\* the characters of a dict key
KeyChars ==
    [choices |-> <<"c", "h", "o", "i", "c", "e", "s">>,
     message |-> <<"m", "e", "s", "s", "a", "g", "e">>,
     content |-> <<"c", "o", "n", "t", "e", "n", "t">>,
     text |-> <<"t", "e", "x", "t">>,
     error |-> <<"e", "r", "r", "o", "r">>]

KeyOrder == <<"error", "message", "choices", "content", "text">>

\* a str's characters inside a JSON string (halving keeps the recursion shallow)
RECURSIVE Escaped(_)
Escaped(chars) ==
    IF chars = <<>> THEN <<>>
    ELSE IF Len(chars) = 1
    THEN (IF chars[1] = "\n" THEN <<"\\", "n">> ELSE chars)
    ELSE LET half == Len(chars) \div 2
         IN  Escaped(SubSeq(chars, 1, half)) \o Escaped(SubSeq(chars, half + 1, Len(chars)))

\* the compact JSON text of a value: the body a backend sends for it
RECURSIVE Dumps(_)
RECURSIVE DumpItems(_)
RECURSIVE DumpEntries(_, _, _)
Dumps(j) ==
    CASE j.t = "str" -> <<"\"">> \o Escaped(j.s) \o <<"\"">>
      [] j.t = "list" -> <<"[">> \o DumpItems(j.l) \o <<"]">>
      [] j.t = "dict" -> <<"{">> \o DumpEntries(j.d, KeyOrder, TRUE) \o <<"}">>
      [] OTHER -> <<"n", "u", "l", "l">>
DumpItems(items) ==
    IF items = <<>> THEN <<>>
    ELSE Dumps(Head(items))
         \o (IF Len(items) > 1 THEN <<",">> ELSE <<>>)
         \o DumpItems(Tail(items))
DumpEntries(entries, keys, first) ==
    IF keys = <<>> THEN <<>>
    ELSE IF Head(keys) \in DOMAIN entries
         THEN (IF first THEN <<>> ELSE <<",">>)
              \o <<"\"">> \o KeyChars[Head(keys)] \o <<"\"", ":">>
              \o Dumps(entries[Head(keys)])
              \o DumpEntries(entries, Tail(keys), FALSE)
         ELSE DumpEntries(entries, Tail(keys), first)

\* a response whose body is the JSON text of payload
JsonResponse(status, payload) ==
    [status_code |-> status, text |-> Dumps(payload), valid |-> TRUE, payload |-> payload]

\* a response whose body is no JSON text
RawResponse(status, chars) ==
    [status_code |-> status, text |-> chars, valid |-> FALSE, payload |-> JNull]

----------------------------------------------------------------------------
(* _extract_error_message *)

ERROR_TEXT_LIMIT == 500

\* x is a str and x.strip() is non-empty
NonBlankStr(j) == IsStr(j) /\ Strip(j.s) # <<>>

ExtractErrorMessage(response) ==
    IF ~response.valid THEN Take(response.text, ERROR_TEXT_LIMIT)
    ELSE LET payload == response.payload
             error == Get(payload, "error", JNull)
             nested == Get(error, "message", JNull)
             message == Get(payload, "message", JNull)
         IN  IF IsDict(payload) /\ IsDict(error) /\ NonBlankStr(nested)
             THEN Strip(nested.s)
             ELSE IF IsDict(payload) /\ NonBlankStr(message)
             THEN Strip(message.s)
             ELSE Take(response.text, ERROR_TEXT_LIMIT)

----------------------------------------------------------------------------
(* _chat_completion, run_ocr, _verify_vision_path *)

TIMED_OUT == "vLLM request timed out."
REQUEST_FAILED == "vLLM request failed."
INFERENCE_ERROR == "vLLM returned an inference error."
INVALID_JSON == "vLLM returned invalid JSON."

\* str(exc) of the ValueError response.json() raises
JSON_ERROR_TEXT == <<"Expecting value: line 1 column 1 (char 0)">>

\* int((time.perf_counter() - started) * 1000), the counter read in microseconds
LatencyMs(started, now) == ((now - started) * 1000) \div 1000000

\* the POST raised exc: the two except clauses
TransportError(exc, latency_ms) ==
    IF exc.is_timeout
    THEN VLLMError("VLLMTimeoutError", TIMED_OUT, Some(exc.msg), NoneInt,
                   exc.class, Some(latency_ms))
    ELSE VLLMError("VLLMError", REQUEST_FAILED, Some(exc.msg), NoneInt,
                   exc.class, Some(latency_ms))

\* the status check with the boundary left out: status_code > 400
IsErrorStatusAbove400(status) == status > 400

\* response.status_code >= 400
IsErrorStatus(status) == status >= 400

\* the POST returned response: the status check, then response.json()
HandleResponse(response, latency_ms) ==
    IF IsErrorStatus(response.status_code)
    THEN [ok |-> FALSE, data |-> JNull,
          error |-> VLLMError("VLLMError", INFERENCE_ERROR,
                              Some(ExtractErrorMessage(response)),
                              Some(response.status_code), HTTP_ERROR_CLASS,
                              Some(latency_ms))]
    ELSE IF ~response.valid
    THEN [ok |-> FALSE, data |-> JNull,
          error |-> VLLMError("VLLMError", INVALID_JSON, Some(JSON_ERROR_TEXT),
                              Some(response.status_code), "JSONDecodeError",
                              Some(latency_ms))]
    ELSE [ok |-> TRUE, data |-> response.payload, error |-> NoError]

\* _chat_completion once the POST has ended with outcome post
ChatCompletion(post, latency_ms) ==
    IF post.raised
    THEN [ok |-> FALSE, data |-> JNull, error |-> TransportError(post.exc, latency_ms)]
    ELSE HandleResponse(post.response, latency_ms)

\* run_ocr: return _extract_message_content(await _chat_completion(payload))
RunOcrResult(post, latency_ms) ==
    LET r == ChatCompletion(post, latency_ms)
    IN  IF r.ok THEN ExtractMessageContent(r.data) ELSE Raised(r.error)

\* _verify_vision_path: await _chat_completion(payload), the data dropped
VerifyVisionResult(post, latency_ms) ==
    LET r == ChatCompletion(post, latency_ms)
    IN  IF r.ok THEN Returned(<<>>) ELSE Raised(r.error)

\* a call that issues the POST again when it failed
RetryAfterPost(result) == IF result.ok THEN "done" ELSE "post"

\* what the call does once _chat_completion has returned or raised: it ends
AfterPost(result) == "done"

----------------------------------------------------------------------------
(* _wait_until_ready *)

POLL_INTERVAL == 1
PROBE_TEXT_LIMIT == 400
READY_STATUS == 200
STARTUP_TIMEOUT == "Timed out waiting for local vLLM server readiness."

\* the loop test with the deadline itself included: time.monotonic() <= deadline
LoopContinuesAtDeadline(now, deadline) == now <= deadline

\* while time.monotonic() < deadline
LoopContinues(now, deadline) == now < deadline

\* deadline = time.monotonic() + vllm_startup_timeout_seconds
Deadline(now, timeout_seconds) == now + timeout_seconds

\* the readiness test accepting every 2xx status
ProbeReadyAny2xx(probe) ==
    ~probe.raised /\ probe.response.status_code >= 200 /\ probe.response.status_code < 300

\* response.status_code == 200
ProbeReady(probe) == ~probe.raised /\ probe.response.status_code = READY_STATUS

\* the VLLMTimeoutError raised after the loop
StartupTimeoutError(last) ==
    VLLMError("VLLMTimeoutError", STARTUP_TIMEOUT, last, NoneInt,
              STARTUP_TIMEOUT_CLASS, NoneInt)

\* a loop that does not sleep between attempts
NoSleepSeconds == {0}

\* how long asyncio.sleep(1) takes: the interval, or longer
SleepSeconds == {POLL_INTERVAL + over : over \in 0..MaxOversleep}

----------------------------------------------------------------------------
(* What the backend may answer *)

\* 501 characters: longer than both truncation limits
LongText == [i \in 1..501 |-> "x"]

Strs == {<<>>, <<" ">>, <<"a">>, <<" ", "a", " ">>}

\* items of a message.content list
Parts ==
    {JDict([text |-> JStr(<<"a">>)]), JDict([text |-> JStr(<<"b", " ">>)]),
     JDict([text |-> JStr(<<>>)]), JDict([text |-> JNull]), JStr(<<"a">>)}
PartLists == UNION {[1..n -> Parts] : n \in 0..MaxParts}

Contents == {JNull} \cup {JStr(c) : c \in Strs} \cup {JList(l) : l \in PartLists}
Messages == {JNull, EmptyDict} \cup {JDict([content |-> c]) : c \in Contents}
Texts == {JNull} \cup {JStr(c) : c \in Strs}

FirstChoices ==
    {JStr(<<"a">>), EmptyDict}
    \cup {JDict([text |-> t]) : t \in Texts}
    \cup {JDict([message |-> m]) : m \in Messages}
    \cup {JDict([message |-> m, text |-> t]) : m \in Messages, t \in Texts}

ChoicesValues ==
    {JNull, JStr(<<"a">>), JList(<<>>)}
    \cup {JList(<<f>>) : f \in FirstChoices}
    \cup {JList(<<f, JDict([text |-> JStr(<<"b">>)])>>) : f \in {EmptyDict, JDict([text |-> JNull])}}

Errors == {JNull, JStr(<<"a">>), EmptyDict} \cup {JDict([message |-> m]) : m \in Texts}

Payloads ==
    {JNull, JList(<<>>), JStr(LongText), EmptyDict}
    \cup {JDict([choices |-> c]) : c \in ChoicesValues}
    \cup {JDict([error |-> e]) : e \in Errors}
    \cup {JDict([message |-> m]) : m \in Texts}
    \cup {JDict([error |-> e, message |-> m]) : e \in Errors, m \in Texts}

PostStatuses == {200, 399, 400, 500}
ProbeStatuses == {200, 204, 503}
RawTexts == {<<>>, <<"o", "o", "p", "s">>, LongText}

NoException == [class |-> "", is_timeout |-> FALSE, msg |-> <<>>]
Exceptions ==
    {[class |-> "ReadTimeout", is_timeout |-> TRUE, msg |-> <<>>],
     [class |-> "ConnectTimeout", is_timeout |-> TRUE, msg |-> <<"t", "i", "m", "e">>],
     [class |-> "ConnectError", is_timeout |-> FALSE, msg |-> <<"r", "e", "f", "u", "s", "e", "d">>]}

NoResponse == RawResponse(0, <<>>)
Answered(response) == [raised |-> FALSE, exc |-> NoException, response |-> response]
Failed(exc) == [raised |-> TRUE, exc |-> exc, response |-> NoResponse]
NoOutcome == Failed(NoException)

\* the status code a probe or POST was answered with, 0 when it raised
StatusOf(outcome) == IF outcome.raised THEN 0 ELSE outcome.response.status_code

PostOutcomes ==
    {Failed(e) : e \in Exceptions}
    \cup {Answered(JsonResponse(st, p)) : st \in PostStatuses, p \in Payloads}
    \cup {Answered(RawResponse(st, t)) : st \in PostStatuses, t \in RawTexts}

ProbeOutcomes ==
    {Failed(e) : e \in Exceptions}
    \cup {Answered(RawResponse(st, t)) : st \in ProbeStatuses, t \in RawTexts}
    \cup {Answered(JsonResponse(st, EmptyDict)) : st \in ProbeStatuses}

\* readings of time.monotonic() when startup begins (seconds)
StartClocks == {0, 5}
\* vllm_startup_timeout_seconds
Timeouts == (0 - 1)..MaxTimeout
\* readings of time.perf_counter() when a POST begins, and the time it takes (microseconds)
PerfStarts == {0, 250}
PostMicros == {999, 1000, 2500}

\* the loop runs at most once per second of the timeout: this cap is never reached
MaxAttempts == MaxTimeout + 1

----------------------------------------------------------------------------
(* State *)

VARIABLES
    pc,            \* where the client is
    timeout_seconds, \* settings.vllm_startup_timeout_seconds
    check_vision,  \* startup_check's argument
    clock,         \* time.monotonic()
    deadline,      \* _wait_until_ready's deadline
    last_error,    \* _wait_until_ready's last_error
    probe,         \* the outcome of the latest probe GET
    attempts,      \* per probe GET so far, its status code (0: it raised)
    sleeps,        \* asyncio.sleep calls so far
    get_started,   \* clock when the latest probe GET began
    get_ended,     \* clock when the latest probe GET ended
    op,            \* the call in progress: "verify" or "run_ocr"
    posts,         \* POSTs issued by the call in progress
    started,       \* _chat_completion's started
    finished,      \* perf_counter when the POST ended
    post,          \* the outcome of the POST
    result         \* what the call returned or raised

vars == <<pc, timeout_seconds, check_vision, clock, deadline, last_error, probe, attempts, sleeps,
          get_started, get_ended, op, posts, started, finished, post, result>>

waitVars == <<clock, deadline, last_error, probe, attempts, sleeps, get_started, get_ended>>
callVars == <<op, posts, started, finished, post, result>>

NoResult == Returned(<<>>)

Init ==
    /\ pc = "start"
    /\ timeout_seconds = 0
    /\ check_vision = FALSE
    /\ clock = 0
    /\ deadline = 0
    /\ last_error = NoneStr
    /\ probe = NoOutcome
    /\ attempts = <<>>
    /\ sleeps = 0
    /\ get_started = 0
    /\ get_ended = 0
    /\ op = "none"
    /\ posts = 0
    /\ started = 0
    /\ finished = 0
    /\ post = NoOutcome
    /\ result = NoResult

----------------------------------------------------------------------------
(* startup_check and _wait_until_ready *)

\* last_error kept from the first failed probe instead of overwritten
ProbeErrorKeepFirst(outcome) ==
    IF last_error.some THEN last_error.v
    ELSE IF outcome.raised
    THEN <<"vLLM readiness probe error: ", outcome.exc.class, ": ">> \o outcome.exc.msg
    ELSE <<"vLLM readiness probe failed with HTTP ", ToString(outcome.response.status_code), ": ">>
         \o Take(outcome.response.text, PROBE_TEXT_LIMIT)

\* the last_error string of a probe that did not return 200
ProbeError(outcome) ==
    IF outcome.raised
    THEN <<"vLLM readiness probe error: ", outcome.exc.class, ": ">> \o outcome.exc.msg
    ELSE <<"vLLM readiness probe failed with HTTP ", ToString(outcome.response.status_code), ": ">>
         \o Take(outcome.response.text, PROBE_TEXT_LIMIT)

\* startup_check(check_vision) is called; _wait_until_ready sets its locals
StartupCheck ==
    /\ pc = "start"
    /\ \E cv \in BOOLEAN, now \in StartClocks, timeout \in Timeouts :
          /\ check_vision' = cv
          /\ clock' = now
          /\ timeout_seconds' = timeout
          /\ deadline' = Deadline(now, timeout)
    /\ last_error' = NoneStr
    /\ pc' = "loop"
    /\ UNCHANGED <<probe, attempts, sleeps, get_started, get_ended>>
    /\ UNCHANGED callVars

\* the while test: start the next GET /v1/models, or raise the timeout
LoopTest ==
    /\ pc = "loop"
    /\ IF LoopContinues(clock, deadline)
       THEN /\ Len(attempts) < MaxAttempts
            /\ pc' = "probing"
            /\ get_started' = clock
            /\ result' = result
       ELSE /\ pc' = "timed_out"
            /\ result' = Raised(StartupTimeoutError(last_error))
            /\ get_started' = get_started
    /\ UNCHANGED <<timeout_seconds, check_vision, clock, deadline, last_error, probe,
                   attempts, sleeps, get_ended, op, posts, started, finished, post>>

\* the GET returns or raises
ProbeReturn ==
    /\ pc = "probing"
    /\ \E outcome \in ProbeOutcomes, took \in 0..MaxRequestSeconds :
          /\ probe' = outcome
          /\ clock' = clock + took
          /\ get_ended' = clock + took
          /\ attempts' = Append(attempts, StatusOf(outcome))
          /\ IF ProbeReady(outcome)
             THEN /\ pc' = "ready"
                  /\ last_error' = last_error
             ELSE /\ pc' = "sleeping"
                  /\ last_error' = Some(ProbeError(outcome))
    /\ UNCHANGED <<timeout_seconds, check_vision, deadline, sleeps, get_started>>
    /\ UNCHANGED callVars

\* await asyncio.sleep(1)
Sleep ==
    /\ pc = "sleeping"
    /\ \E slept \in SleepSeconds : clock' = clock + slept
    /\ sleeps' = sleeps + 1
    /\ pc' = "loop"
    /\ UNCHANGED <<timeout_seconds, check_vision, deadline, last_error, probe, attempts,
                   get_started, get_ended>>
    /\ UNCHANGED callVars

\* _wait_until_ready has returned: verify the vision path if asked to, else serve
StartupContinue ==
    /\ pc = "ready"
    /\ clock' = 0 /\ deadline' = 0 /\ last_error' = NoneStr /\ probe' = NoOutcome
    /\ attempts' = <<>> /\ sleeps' = 0 /\ get_started' = 0 /\ get_ended' = 0
    /\ IF check_vision
       THEN pc' = "post" /\ op' = "verify"
       ELSE pc' = "idle" /\ op' = "none"
    /\ UNCHANGED <<timeout_seconds, check_vision, posts, started, finished, post, result>>

----------------------------------------------------------------------------
(* run_ocr and _verify_vision_path *)

\* run_ocr is called
RunOcr ==
    /\ pc = "idle"
    /\ pc' = "post"
    /\ op' = "run_ocr"
    /\ UNCHANGED <<timeout_seconds, check_vision, posts, started, finished, post, result>>
    /\ UNCHANGED waitVars

\* _chat_completion reads the counter and issues POST /v1/chat/completions
Send ==
    /\ pc = "post"
    /\ \E now \in PerfStarts : started' = now
    /\ posts' = posts + 1
    /\ pc' = "awaiting"
    /\ UNCHANGED <<timeout_seconds, check_vision, op, finished, post, result>>
    /\ UNCHANGED waitVars

\* the POST returns or raises; the call classifies it and returns or raises
Receive ==
    /\ pc = "awaiting"
    /\ \E outcome \in PostOutcomes, took \in PostMicros :
          LET now == started + took
              r == IF op = "verify"
                   THEN VerifyVisionResult(outcome, LatencyMs(started, now))
                   ELSE RunOcrResult(outcome, LatencyMs(started, now))
          IN  /\ post' = outcome
              /\ finished' = now
              /\ result' = r
              /\ pc' = AfterPost(r)
    /\ UNCHANGED <<timeout_seconds, check_vision, op, posts, started>>
    /\ UNCHANGED waitVars

\* the caller has the result: startup aborts on a failed verification,
\* otherwise the client serves requests
Finish ==
    /\ pc = "done"
    /\ IF op = "verify" /\ ~result.ok
       THEN UNCHANGED <<op, posts, started, finished, post, result>> /\ pc' = "aborted"
       ELSE /\ pc' = "idle"
            /\ op' = "none" /\ posts' = 0 /\ started' = 0 /\ finished' = 0
            /\ post' = NoOutcome /\ result' = NoResult
    /\ UNCHANGED <<timeout_seconds, check_vision>>
    /\ UNCHANGED waitVars

NextReady == StartupCheck \/ LoopTest \/ ProbeReturn \/ Sleep

Next ==
    \/ StartupCheck \/ LoopTest \/ ProbeReturn \/ Sleep \/ StartupContinue
    \/ RunOcr \/ Send \/ Receive \/ Finish

Spec == Init /\ [][Next]_vars

\* the readiness loop alone; every probe returns or raises and every sleep ends
ReadySpec == Init /\ [][NextReady]_vars
LiveReadySpec ==
    ReadySpec /\ WF_vars(LoopTest) /\ WF_vars(ProbeReturn) /\ WF_vars(Sleep)

----------------------------------------------------------------------------
(* Properties *)

WaitPcs == {"loop", "probing", "sleeping", "ready", "timed_out"}

\* the POST of the call that has ended was answered below 400 with a JSON body
Parsed ==
    /\ ~post.raised
    /\ post.response.status_code < 400
    /\ post.response.valid

OcrDone == pc = "done" /\ op = "run_ocr"

\* C1: for every parsed backend response (here: every JSON object) run_ocr
\* returns a non-empty text or raises a VLLMError; it never returns the empty
\* string.
C1_NonEmptyOrGatewayError ==
    (OcrDone /\ Parsed /\ IsDict(post.response.payload)) =>
        \/ result.ok /\ result.value # <<>>
        \/ ~result.ok /\ IsGatewayError(result.error)

\* C2: every execution of the polling loop ends, ready after a 200 or timed
\* out, whatever the backend answers, given that probes return and sleeps end.
C2_Terminates == (pc = "loop") ~> (pc \in {"ready", "timed_out"})

C2_Witness == pc = "timed_out" /\ Len(attempts) >= 2 /\ sleeps >= 2

\* C3 as amended: a probe GET is started only while the clock is strictly
\* before the deadline; with a timeout <= 0 the call issues no GET and no
\* sleep and raises the startup timeout at once; a probe started before the
\* deadline may outlive it, by less than the transport's per-request timeout.
C3_ProbeOnlyBeforeDeadline ==
    /\ pc = "probing" => get_started < deadline
    /\ (pc \in WaitPcs /\ timeout_seconds <= 0) =>
          /\ attempts = <<>> /\ sleeps = 0
          /\ pc \in {"loop", "timed_out"}
          /\ clock = deadline - timeout_seconds
    /\ (pc \in WaitPcs /\ attempts # <<>>) =>
          get_ended < deadline + MaxRequestSeconds

\* C3 as claimed: the same, but no probe GET outlives the deadline by more
\* than one polling interval.
C3_NoCallOutlivesDeadline ==
    /\ pc = "probing" => get_started < deadline
    /\ (pc \in WaitPcs /\ timeout_seconds <= 0) =>
          /\ attempts = <<>> /\ sleeps = 0
          /\ pc \in {"loop", "timed_out"}
          /\ clock = deadline - timeout_seconds
    /\ (pc \in WaitPcs /\ attempts # <<>>) =>
          get_ended <= deadline + POLL_INTERVAL

C3_Witness ==
    /\ pc = "timed_out" /\ timeout_seconds <= 0
    /\ attempts = <<>> /\ sleeps = 0 /\ ~result.ok

\* C4: when the probe fails on attempts 1..N-1 and returns 200 on attempt N,
\* the loop returns after exactly N GETs with one sleep of at least the
\* polling interval between consecutive GETs, none after the 200, and no GET
\* follows a 200.
C4_ReadyAfterExactlyNAttempts ==
    /\ pc = "ready" =>
          /\ attempts # <<>>
          /\ attempts[Len(attempts)] = READY_STATUS
          /\ \A i \in 1..(Len(attempts) - 1) : attempts[i] # READY_STATUS
          /\ sleeps = Len(attempts) - 1
    /\ pc \in {"loop", "probing", "sleeping", "timed_out"} =>
          \A i \in 1..Len(attempts) : attempts[i] # READY_STATUS
    /\ pc = "probing" =>
          /\ sleeps = Len(attempts)
          /\ attempts # <<>> => get_started >= get_ended + POLL_INTERVAL
    /\ pc = "sleeping" => sleeps = Len(attempts) - 1
    /\ pc \in {"loop", "timed_out"} => sleeps = Len(attempts)

C4_Witness ==
    /\ pc = "ready" /\ Len(attempts) = 3 /\ sleeps = 2
    /\ attempts[1] = 0 /\ attempts[2] = 503

\* C5: a call issues exactly one POST /v1/chat/completions, then returns or
\* raises; no outcome of the POST is followed by a second request.
C5_SinglePost ==
    /\ pc = "post" => posts = 0
    /\ pc \in {"awaiting", "done", "aborted"} => posts = 1

C5_Witness == OcrDone /\ post.raised /\ ~result.ok /\ posts = 1

\* "choices" is missing, not a list, or empty
ChoicesUnusable(payload) ==
    \/ "choices" \notin DOMAIN payload.d
    \/ ~IsList(payload.d.choices)
    \/ payload.d.choices.l = <<>>

NoUsableContent(choice) ==
    \/ "message" \notin DOMAIN choice.d
    \/ /\ IsDict(choice.d.message)
       /\ \/ "content" \notin DOMAIN choice.d.message.d
          \/ /\ IsList(choice.d.message.d.content)
             /\ Strip(Join(TextParts(choice.d.message.d.content.l))) = <<>>

\* C7: a first choice without usable message.content but with a str "text"
\* field yields that text, trimmed.
C7_TextFallback ==
    (/\ OcrDone /\ Parsed /\ IsDict(post.response.payload)
     /\ ~ChoicesUnusable(post.response.payload)
     /\ IsDict(post.response.payload.d.choices.l[1])
     /\ NoUsableContent(post.response.payload.d.choices.l[1])
     /\ "text" \in DOMAIN post.response.payload.d.choices.l[1].d
     /\ IsStr(post.response.payload.d.choices.l[1].d.text)) =>
        /\ result.ok
        /\ result.value = Strip(post.response.payload.d.choices.l[1].d.text.s)

\* C8: vision verification fails on an outcome of the POST (transport
\* failure, status >= 400, non-JSON body, JSON object) exactly when run_ocr
\* fails on that outcome.
C8_VerifyFailsWhenOcrFails ==
    (pc = "done" /\ op = "verify" /\ (Parsed => IsDict(post.response.payload))) =>
        (~result.ok <=> ~RunOcrResult(post, LatencyMs(started, finished)).ok)

\* the message the ordered policy picks from an error response
C9_PolicyMessage(response) ==
    IF /\ response.valid /\ IsDict(response.payload)
       /\ "error" \in DOMAIN response.payload.d
       /\ IsDict(response.payload.d.error)
       /\ "message" \in DOMAIN response.payload.d.error.d
       /\ IsStr(response.payload.d.error.d.message)
       /\ Strip(response.payload.d.error.d.message.s) # <<>>
    THEN Strip(response.payload.d.error.d.message.s)
    ELSE IF /\ response.valid /\ IsDict(response.payload)
            /\ "message" \in DOMAIN response.payload.d
            /\ IsStr(response.payload.d.message)
            /\ Strip(response.payload.d.message.s) # <<>>
    THEN Strip(response.payload.d.message.s)
    ELSE SubSeq(response.text, 1, IF Len(response.text) > 500 THEN 500 ELSE Len(response.text))

\* C9: a POST answered with a status >= 400 makes run_ocr raise a VLLMError
\* with the HTTP-error tag ("vllm_http_error"), the response's status code,
\* the measured latency in milliseconds and the message the ordered policy
\* picks; the body is neither reported as invalid JSON nor extracted from.
C9_HttpError ==
    (OcrDone /\ ~post.raised /\ post.response.status_code >= 400) =>
        /\ ~result.ok
        /\ result.error.type = "VLLMError"
        /\ result.error.backend_error_class = HTTP_ERROR_CLASS
        /\ result.error.backend_status_code = Some(post.response.status_code)
        /\ result.error.backend_latency_ms = Some((finished - started) \div 1000)
        /\ result.error.detail = Some(C9_PolicyMessage(post.response))

C9_Witness ==
    /\ OcrDone /\ ~post.raised /\ post.response.status_code = 500
    /\ post.response.valid /\ IsDict(post.response.payload)
    /\ "error" \in DOMAIN post.response.payload.d
    /\ IsDict(post.response.payload.d.error)
    /\ "message" \in DOMAIN post.response.payload.d.error.d
    /\ IsStr(post.response.payload.d.error.d.message)
    /\ post.response.payload.d.error.d.message.s = <<" ", "a", " ">>
    /\ result.error.detail = Some(<<"a">>)
    /\ result.error.backend_status_code = Some(500)

\* the description of a failed probe: status code and the body's first 400
\* characters, or exception class and message
C10_Description(outcome) ==
    IF outcome.raised
    THEN <<"vLLM readiness probe error: ", outcome.exc.class, ": ">> \o outcome.exc.msg
    ELSE <<"vLLM readiness probe failed with HTTP ", ToString(outcome.response.status_code), ": ">>
         \o SubSeq(outcome.response.text, 1,
                   IF Len(outcome.response.text) > 400 THEN 400 ELSE Len(outcome.response.text))

\* C10: the error raised at the deadline is a VLLMTimeoutError with the
\* startup-timeout tag ("vllm_startup_timeout"), no status code and no
\* latency, whose detail describes the latest failed probe (None when no
\* probe was made).
C10_StartupTimeoutDetail ==
    pc = "timed_out" =>
        /\ ~result.ok
        /\ result.error.type = "VLLMTimeoutError"
        /\ result.error.backend_error_class = STARTUP_TIMEOUT_CLASS
        /\ result.error.backend_status_code = NoneInt
        /\ result.error.backend_latency_ms = NoneInt
        /\ result.error.detail =
              IF attempts = <<>> THEN NoneStr ELSE Some(C10_Description(probe))

C10_Witness ==
    /\ pc = "timed_out" /\ Len(attempts) >= 2
    /\ attempts[1] = 0 /\ attempts[Len(attempts)] = 503
    /\ Len(probe.response.text) > 400
    /\ result.error.detail.some

====
